---- MODULE Spec2Model ----
(***************************************************************************)
(* The orchestrator loop of the browser agent, Agent.ExecuteTask           *)
(* (internal/amazon_agent/executor.go:1955-2106), with the collaborators   *)
(* it calls: Planner.CreatePlan / Replan / CreateRecoveryPlan,             *)
(* Executor.ExecuteStep, Validator.ValidateProgress, Browser.GetPageState  *)
(* and Agent.updateMemory.                                                 *)
(*                                                                         *)
(* Time is in seconds.  Every call to a collaborator takes a duration      *)
(* drawn from a small set; the clock `now` is read where the code reads    *)
(* time.Now / time.Since.                                                  *)
(***************************************************************************)
EXTENDS Integers, Sequences, FiniteSets, TLC

\* ---------------------------------------------------------------- bounds
\* config.MaxSteps: the loop bound (default 100, set by the caller).
MaxSteps == 6
\* config.TotalTimeout in seconds (default 10 minutes, set by the caller).
TotalTimeout == 12
\* Cap on the length of ExecutedSteps explored.
MaxLog == 10
\* Cap on the failed records of ExecutedSteps explored.
MaxFailures == 4
\* The duration of a slow collaborator call, in seconds.
StepSeconds == 6
\* The duration of the quickest call of ExecuteStep where every step takes time.
TickSeconds == 2

\* config.MaxRetries as the caller sets it before ExecuteTask (default 3).
MaxRetries == 2
\* The number of handler goroutines of the manual-control server.
MaxHandlers == 3
\* The number of answers the oracle service has ready for successive requests.
MaxRequests == 2
\* The longest list of candidates handed to selectProductByCriteria.
MaxProducts == 3
\* A further task is modelled after a task that executed at most this many steps
MaxCarriedSteps == 2
\* and left at most this many product URLs and cart items in the memory.
MaxCarriedItems == 0

\* ------------------------------------------------------ program constants
validationInterval == 5
maxConsecutiveFailures == 3
ValidationCooldown == 10
\* The 30000 of `v < 30000` in GetValueString.
DurationLimit == 30000
\* The rating 4.0 of `rating >= 4.0`, in tenths.
RatingThreshold == 40
\* The zero time.Time of `var lastValidationTime time.Time`.
ZeroTime == -1

VARIABLES
  pc,                   \* position of ExecuteTask
  now,                  \* the wall clock
  startTime,            \* startTime := time.Now()
  plan,                 \* the local variable plan
  executionContext,     \* *ExecutionContext: Plan, ExecutedSteps, CurrentStepNum
  memory,               \* a.memory (*AgentMemory)
  consecutiveFailures,
  lastValidationTime,
  step,                 \* loop-body local: step
  err,                  \* loop-body local: err
  executedStep,         \* loop-body local: executedStep (a copy of what was appended)
  validationResult,     \* loop-body local: validationResult
  result,               \* the *TaskResult returned
  returnErr,            \* the error returned next to it
  attempts,             \* history: calls of Executor.ExecuteStep begun
  recoveryRequests,     \* history: calls of Planner.CreateRecoveryPlan begun
  plansMade,            \* history: plans handed out by the planner
  fresh,                \* history: how the current plan was installed, until its first step begins
  verdicts,             \* history: validations that reported completion or needs-replanning
  call,                 \* a handler or client function called on its own: name, arguments, return value
  controller,           \* the browser Controller of the manual-control server: mu, isNavigated
  handlers              \* the server's handler goroutines: position and Controller calls still to make

vars == << pc, now, startTime, plan, executionContext, memory, consecutiveFailures,
           lastValidationTime, step, err, executedStep, validationResult, result,
           returnErr, attempts, recoveryRequests, plansMade, fresh, verdicts, call,
           controller, handlers >>

\* The variables of ExecuteTask.
taskVars == << pc, now, startTime, plan, executionContext, memory, consecutiveFailures,
               lastValidationTime, step, err, executedStep, validationResult, result,
               returnErr, attempts, recoveryRequests, plansMade, fresh, verdicts >>

\* ------------------------------------------------------------ data model
NoErr == [msg |-> "nil", wraps |-> 0]

\* The error of the n-th call of ExecuteStep.
ExecErr(n) == [msg |-> "step failed", wraps |-> n]

\* The action of the step at position i of a plan: plans follow the shape of
\* the planner prompt (navigate, search, select, add to cart, login, waits).
ActionAt(i) ==
  CASE i = 1 -> "navigate"
    [] i = 2 -> "type"
    [] i = 3 -> "select_product"
    [] i = 4 -> "add_to_cart"
    [] i = 5 -> "login"
    [] OTHER -> "wait"

\* The target the planner gives to a step: a URL for navigate, a selector for
\* the actions that work on one element, none for the others.
TargetOf(action) ==
  CASE action = "navigate" -> "https://www.amazon.in"
    [] action \in {"click", "type", "extract", "verify"} -> "#twotabsearchtextbox"
    [] OTHER -> ""

\* Step: Description is the pair (plan, position), which tells steps apart.
MkStep(p, i, crit) ==
  [Description |-> << p, i >>, Action |-> ActionAt(i), Target |-> TargetOf(ActionAt(i)),
   Critical |-> crit]

NoStep == [Description |-> << 0, 0 >>, Action |-> "", Target |-> "", Critical |-> FALSE]

\* Plan p of n steps whose steps are critical from position k on.
MkPlan(p, n, k) == [Steps |-> [i \in 1..n |-> MkStep(p, i, i >= k)]]

NoPlan == [Steps |-> << >>]

NoExecutedStep == [Step |-> NoStep, Success |-> FALSE, Error |-> NoErr]

NoValidation == [IsComplete |-> FALSE, NeedsReplanning |-> FALSE, Message |-> ""]

\* No function has been called on its own.
NoCall == [fn |-> "", args |-> << >>, ret |-> << >>]

NoResult ==
  [Success |-> FALSE, StepsExecuted |-> 0, Error |-> NoErr, FinalState |-> ""]

EmptyMemory ==
  [ProductURLs |-> << >>, SelectedProduct |-> << >>, CartItems |-> << >>,
   CurrentPage |-> << >>, UserCredentials |-> << >>]

ExecutedSteps == executionContext.ExecutedSteps
CurrentStepNum == executionContext.CurrentStepNum


\* ------------------------------------------------- what the oracle returns
\* Planner.CreatePlan returns a plan of at least one step.  The plans explored:
\* shorter than the validation interval, exactly that long, as long as MaxSteps,
\* longer than MaxSteps; with all steps critical, critical from the third step
\* on, or no step critical.
InitialPlans(p) ==
  { MkPlan(p, n, k) : n \in {2, validationInterval, MaxSteps, MaxSteps + 1},
                      k \in {1, 3, MaxSteps + 2} }

\* Planner.Replan returns a plan of at least one step, each with an action and,
\* where the action needs one, a target.
ReplanPlans(p) ==
  { MkPlan(p, validationInterval, validationInterval + 1), MkPlan(p, 2, 1) }

\* What the oracle may send to Replan besides: JSON that parses to a plan with
\* no steps, with a step that has no action, or with a navigate or type step
\* that has no target.
MalformedPlans(p) ==
  { NoPlan,
    [MkPlan(p, 2, 1) EXCEPT !.Steps[2].Action = ""],
    [MkPlan(p, 2, 1) EXCEPT !.Steps[1].Target = ""],
    [MkPlan(p, 2, 3) EXCEPT !.Steps[2].Target = ""] }

\* The outcome of llm.Generate and json.Unmarshal in Replan: an error, or a
\* parsed plan, well-formed or not.
ReplanResponses(p) ==
  [ok : {FALSE}, plan : {NoPlan}]
    \cup [ok : {TRUE}, plan : ReplanPlans(p) \cup MalformedPlans(p)]

\* Mutant: only the action of each step is looked at.
ReplanAccepts_actionOnly(p) ==
  /\ Len(p.Steps) # 0
  /\ \A i \in 1..Len(p.Steps) : p.Steps[i].Action # ""

\* The checks of Replan on the parsed plan: it has steps, every step has an
\* action, and click, type, extract, verify and navigate steps have a target.
ReplanAccepts(p) ==
  /\ Len(p.Steps) # 0
  /\ \A i \in 1..Len(p.Steps) :
        /\ p.Steps[i].Action # ""
        /\ (p.Steps[i].Action \in {"click", "type", "extract", "verify"})
              => p.Steps[i].Target # ""
        /\ (p.Steps[i].Action = "navigate") => p.Steps[i].Target # ""

\* Planner.CreateRecoveryPlan returns whatever parses, a plan of no steps included.
RecoveryPlans(p) ==
  { NoPlan, MkPlan(p, 2, 3), MkPlan(p, validationInterval, 1) }

\* The oracle's answer to the validator: a transport error, text that is not
\* JSON, or a parsed judgment.
OracleAnswers ==
  [kind : {"error", "garbage"}, IsComplete : {FALSE}, NeedsReplanning : {FALSE}]
    \cup [kind : {"json"}, IsComplete : BOOLEAN, NeedsReplanning : BOOLEAN]

\* How long a call lasts: no time to speak of, or StepSeconds.
Durations == {0, StepSeconds}
\* How long a call of ExecuteStep lasts when the clock advances on every iteration.
BusyDurations == {TickSeconds}

\* The records of failed attempts in a log.
Failed(log) == {i \in 1..Len(log) : ~log[i].Success}

\* ------------------------------------------------------- the code's tests
\* for CurrentStepNum < len(plan.Steps) && CurrentStepNum < MaxSteps
LoopCondition(n, p) == n < Len(p.Steps) /\ n < MaxSteps

\* Mutant: the operands of the elapsed time swapped, so the check never fires.
TotalTimeoutExceeded_swapped(t) == startTime - t > TotalTimeout

\* Mutant: twice the budget is allowed.
TotalTimeoutExceeded_double(t) == t - startTime > 2 * TotalTimeout

\* time.Since(startTime) > a.config.TotalTimeout
TotalTimeoutExceeded(t) == t - startTime > TotalTimeout

\* Mutant: the threshold must be exceeded, not reached.
ThresholdReached_strict(cf) == cf > maxConsecutiveFailures

\* consecutiveFailures >= maxConsecutiveFailures
ThresholdReached(cf) == cf >= maxConsecutiveFailures

\* time.Since(lastValidationTime) > 10*time.Second
CooldownElapsed(last, t) == last = ZeroTime \/ t - last > ValidationCooldown

\* Mutant: a step that failed is validated too.
ShouldValidate_afterFailure(e, n, last, t) ==
  /\ n % validationInterval = 0
  /\ CooldownElapsed(last, t)

\* Mutant: the cooldown is not consulted.
ShouldValidate_noCooldown(e, n, last, t) ==
  /\ e = NoErr
  /\ n % validationInterval = 0

\* err == nil && CurrentStepNum%validationInterval == 0 && cooldown elapsed
ShouldValidate(e, n, last, t) ==
  /\ e = NoErr
  /\ n % validationInterval = 0
  /\ CooldownElapsed(last, t)

\* Mutant: needs-replanning is looked at before completion.
Verdict_replanFirst(vr) ==
  IF vr.NeedsReplanning THEN "replan"
  ELSE IF vr.IsComplete THEN "complete" ELSE "continue"

\* if validationResult.IsComplete {return ...}; if validationResult.NeedsReplanning {...}
Verdict(vr) ==
  IF vr.IsComplete THEN "complete"
  ELSE IF vr.NeedsReplanning THEN "replan" ELSE "continue"

\* Mutant: the new plan is entered one step before the current position.
InstallPlan_stepBack(ctx, p) == [ctx EXCEPT !.Plan = p, !.CurrentStepNum = @ - 1]

\* Mutant: the context keeps referring to the old plan.
InstallPlan_localOnly(ctx, p) == [ctx EXCEPT !.CurrentStepNum = 0]

\* Mutant: the step index is not reset when the plan is replaced.
InstallPlan_keepIndex(ctx, p) == [ctx EXCEPT !.Plan = p]

\* executionContext.Plan = newPlan; executionContext.CurrentStepNum = 0
InstallPlan(ctx, p) == [ctx EXCEPT !.Plan = p, !.CurrentStepNum = 0]

\* ------------------------------------------------------ the results built
TimeoutResult(log) ==
  [Success |-> FALSE, StepsExecuted |-> Len(log),
   Error |-> [msg |-> "total timeout exceeded", wraps |-> 0], FinalState |-> ""]

\* Mutant: the error of the first attempt is wrapped, not the retry's.
CriticalFailureResult_firstErr(log, retryErr, firstErr) ==
  [Success |-> FALSE, StepsExecuted |-> Len(log),
   Error |-> [msg |-> "critical step failed after retry", wraps |-> firstErr.wraps],
   FinalState |-> ""]

\* fmt.Errorf("critical step failed after retry: %w", retryErr)
CriticalFailureResult(log, retryErr, firstErr) ==
  [Success |-> FALSE, StepsExecuted |-> Len(log),
   Error |-> [msg |-> "critical step failed after retry", wraps |-> retryErr.wraps],
   FinalState |-> ""]

CompleteResult(log, vr) ==
  [Success |-> TRUE, StepsExecuted |-> Len(log), Error |-> NoErr,
   FinalState |-> vr.Message]

\* The two returns after the loop.
ExitResult(n, log) ==
  IF n >= MaxSteps
    THEN [Success |-> FALSE, StepsExecuted |-> Len(log),
          Error |-> [msg |-> "max steps exceeded", wraps |-> 0], FinalState |-> ""]
    ELSE [Success |-> TRUE, StepsExecuted |-> Len(log), Error |-> NoErr,
          FinalState |-> "All planned steps completed"]

\* executedStep := ExecutedStep{Step: step, Success: err == nil, Error: err}
RecordOf(s, e) == [Step |-> s, Success |-> e = NoErr, Error |-> e]

\* Mutant: a successful retry rewrites the record of the first attempt.
LogAfterRetry_rewrites(log, rec) == [log EXCEPT ![Len(log)] = rec]

\* A successful retry writes executedStep.Success / .Error: executedStep is the
\* local copy, the element already appended to ExecutedSteps is not touched.
LogAfterRetry(log, rec) == log

\* ------------------------------------------------------------ collaborators
\* Validator.ValidateProgress: the safe default on an oracle error or on an
\* unparsable response, the parsed judgment otherwise; the error is always nil.
ValidateProgress(answer) ==
  CASE answer.kind = "error" ->
         [IsComplete |-> FALSE, NeedsReplanning |-> FALSE,
          Message |-> "Validation unavailable, continuing"]
    [] answer.kind = "garbage" ->
         [IsComplete |-> FALSE, NeedsReplanning |-> FALSE,
          Message |-> "Continuing with plan"]
    [] OTHER ->
         [IsComplete |-> answer.IsComplete, NeedsReplanning |-> answer.NeedsReplanning,
          Message |-> "judgment"]

\* What the user types at the two prompts of executeRequestAuth.
EnteredEmail == "user@example.com"
EnteredPassword == "hunter2"

\* The ExecutionResult of executeRequestAuth once both values were typed into
\* the page and the form was submitted: a fixed message and no Data.
AuthResult(email, password) ==
  [Success |-> TRUE, Message |-> "Login credentials entered and submitted", Data |-> << >>]

\* The Data a handler declares in its ExecutionResult on success.
StepData(s) ==
  CASE s.Action = "navigate" -> ("current_page" :> s.Description)
    [] s.Action = "select_product" ->
         ("selected_product" :> s.Description) @@ ("product_url" :> s.Description)
    [] s.Action = "add_to_cart" -> ("cart_item" :> s.Description)
    [] s.Action = "login" -> AuthResult(EnteredEmail, EnteredPassword).Data
    [] OTHER -> << >>

\* Agent.updateMemory
updateMemory(mem, data) ==
  [mem EXCEPT
     !.ProductURLs = IF "product_url" \in DOMAIN data
                       THEN Append(@, data["product_url"]) ELSE @,
     !.SelectedProduct = IF "selected_product" \in DOMAIN data
                           THEN data["selected_product"] ELSE @,
     !.CartItems = IF "cart_item" \in DOMAIN data
                     THEN Append(@, data["cart_item"]) ELSE @,
     !.CurrentPage = IF "current_page" \in DOMAIN data
                       THEN data["current_page"] ELSE @]

\* Mutant: the password is kept next to the e-mail.
MemoryAfterExecute_keepsPassword(mem, s, emailEntered) ==
  IF s.Action = "login" /\ emailEntered
    THEN [mem EXCEPT !.UserCredentials =
            ("email" :> EnteredEmail) @@ ("password" :> EnteredPassword)]
    ELSE mem

\* executeRequestAuth writes the e-mail it typed into e.memory.UserCredentials
\* itself, whatever the step returns afterwards; the password is typed into
\* the page and goes nowhere else.
MemoryAfterExecute(mem, s, emailEntered) ==
  IF s.Action = "login" /\ emailEntered
    THEN [mem EXCEPT !.UserCredentials = ("email" :> EnteredEmail)]
    ELSE mem

EmailOutcomes(s) == IF s.Action = "login" THEN BOOLEAN ELSE {FALSE}

\* Handlers that read GetPageState() and use the page state unchecked.
UsesPageStateUnchecked(s) == s.Action \in {"navigate", "select_product", "login"}


\* The goroutines net/http runs the server's handlers on.
Goroutines == 1..MaxHandlers

\* sync.Mutex: held by no goroutine (the holder is a goroutine number otherwise).
Unlocked == 0

\* NewController: the mutex free, isNavigated false.
NewController == [mu |-> Unlocked, isNavigated |-> FALSE]

\* A goroutine that serves no request.
IdleHandler == [pc |-> "idle", todo |-> << >>]

\* ------------------------------------------------------------------- Init
Init ==
  /\ pc = "start"
  /\ now = 0
  /\ startTime = 0
  /\ plan = NoPlan
  /\ executionContext = [Plan |-> NoPlan, ExecutedSteps |-> << >>, CurrentStepNum |-> 0]
  /\ memory = EmptyMemory
  /\ consecutiveFailures = 0
  /\ lastValidationTime = ZeroTime
  /\ step = NoStep
  /\ err = NoErr
  /\ executedStep = NoExecutedStep
  /\ validationResult = NoValidation
  /\ result = NoResult
  /\ returnErr = NoErr
  /\ attempts = 0
  /\ recoveryRequests = 0
  /\ plansMade = 0
  /\ fresh = "none"
  /\ verdicts = 0
  /\ call = NoCall
  /\ controller = NewController
  /\ handlers = [g \in Goroutines |-> IdleHandler]

\* The loop-body locals go out of scope at the end of an iteration.
EndIteration ==
  /\ step' = NoStep
  /\ err' = NoErr
  /\ executedStep' = NoExecutedStep
  /\ validationResult' = NoValidation

\* executionContext.CurrentStepNum++ and the test that guards validation;
\* without a validation the iteration ends (time.Sleep(500ms), loop head).
Advance(ctx, e, rec, t) ==
  /\ executionContext' = [ctx EXCEPT !.CurrentStepNum = @ + 1]
  /\ validationResult' = NoValidation
  /\ IF ShouldValidate(e, ctx.CurrentStepNum + 1, lastValidationTime, t)
       THEN /\ pc' = "validate"
            /\ step' = step
            /\ err' = e
            /\ executedStep' = rec
       ELSE /\ pc' = "loop"
            /\ step' = NoStep
            /\ err' = NoErr
            /\ executedStep' = NoExecutedStep

\* Mutant: every failed step is retried.
RetriesStep_always(s) == TRUE

\* if step.Critical
RetriesStep(s) == s.Critical

\* Mutant: a failed step is never retried, critical or not.
AfterFailure_neverRetries(ctx, e, rec, t) ==
  /\ Advance(ctx, e, rec, t)
  /\ attempts' = attempts

\* The handling of a failed step once no recovery plan was installed:
\* a critical step is retried (after time.Sleep(2s)), another one is passed over.
AfterFailure(ctx, e, rec, t) ==
  IF RetriesStep(step)
    THEN /\ pc' = "retry"
         /\ attempts' = attempts + 1
         /\ executionContext' = ctx
         /\ err' = e
         /\ executedStep' = rec
         /\ UNCHANGED << step, validationResult >>
    ELSE /\ Advance(ctx, e, rec, t)
         /\ attempts' = attempts

\* ------------------------------------------------------------ CreatePlan
CreatePlanOk ==
  /\ pc = "start"
  /\ \E p \in InitialPlans(plansMade + 1) :
       /\ plan' = p
       /\ executionContext' = [Plan |-> p, ExecutedSteps |-> << >>, CurrentStepNum |-> 0]
  /\ plansMade' = plansMade + 1
  /\ fresh' = "initial"
  /\ pc' = "loop"
  /\ UNCHANGED << call, controller, handlers, now, startTime, memory, consecutiveFailures, lastValidationTime, step,
                  err, executedStep, validationResult, result, returnErr, attempts,
                  recoveryRequests, verdicts >>

\* return nil, fmt.Errorf("create plan: %w", err)
CreatePlanErr ==
  /\ pc = "start"
  /\ returnErr' = [msg |-> "create plan", wraps |-> 0]
  /\ pc' = "done"
  /\ UNCHANGED << call, controller, handlers, now, startTime, plan, executionContext, memory, consecutiveFailures,
                  lastValidationTime, step, err, executedStep, validationResult, result,
                  attempts, recoveryRequests, plansMade, fresh, verdicts >>

\* ------------------------------------------------------------- loop head
\* The for condition is false: one of the two returns after the loop.
LoopExit ==
  /\ pc = "loop"
  /\ ~LoopCondition(CurrentStepNum, plan)
  /\ result' = ExitResult(CurrentStepNum, ExecutedSteps)
  /\ pc' = "done"
  /\ UNCHANGED << call, controller, handlers, now, startTime, plan, executionContext, memory, consecutiveFailures,
                  lastValidationTime, step, err, executedStep, validationResult,
                  returnErr, attempts, recoveryRequests, plansMade, fresh, verdicts >>

\* The check at the top of the body.
TimeoutExit ==
  /\ pc = "loop"
  /\ LoopCondition(CurrentStepNum, plan)
  /\ TotalTimeoutExceeded(now)
  /\ result' = TimeoutResult(ExecutedSteps)
  /\ pc' = "done"
  /\ UNCHANGED << call, controller, handlers, now, startTime, plan, executionContext, memory, consecutiveFailures,
                  lastValidationTime, step, err, executedStep, validationResult,
                  returnErr, attempts, recoveryRequests, plansMade, fresh, verdicts >>

\* step := plan.Steps[CurrentStepNum]; ExecuteStep(step, executionContext) is called.
BeginStep ==
  /\ pc = "loop"
  /\ LoopCondition(CurrentStepNum, plan)
  /\ ~TotalTimeoutExceeded(now)
  /\ Len(ExecutedSteps) < MaxLog
  /\ step' = plan.Steps[CurrentStepNum + 1]
  /\ attempts' = attempts + 1
  /\ fresh' = "none"
  /\ pc' = "exec"
  /\ UNCHANGED << call, controller, handlers, now, startTime, plan, executionContext, memory, consecutiveFailures,
                  lastValidationTime, err, executedStep, validationResult, result,
                  returnErr, recoveryRequests, plansMade, verdicts >>


\* ----------------------------------------------------------- ExecuteStep
\* ExecuteStep returned a result and no error.
StepOk(D) ==
  /\ pc = "exec"
  /\ \E d \in D, entered \in EmailOutcomes(step) :
       LET rec == RecordOf(step, NoErr)
           ctx == [executionContext EXCEPT !.ExecutedSteps = Append(@, rec)]
       IN  /\ now' = now + d
           /\ memory' = updateMemory(MemoryAfterExecute(memory, step, entered),
                                     StepData(step))
           /\ Advance(ctx, NoErr, rec, now + d)
  /\ consecutiveFailures' = 0
  /\ UNCHANGED << call, controller, handlers, startTime, plan, lastValidationTime, result, returnErr, attempts,
                  recoveryRequests, plansMade, fresh, verdicts >>

\* ExecuteStep returned an error.
StepFail(D, cap) ==
  /\ pc = "exec"
  /\ Cardinality(Failed(ExecutedSteps)) < cap
  /\ \E d \in D, entered \in EmailOutcomes(step) :
       LET e == ExecErr(attempts)
           rec == RecordOf(step, e)
           ctx == [executionContext EXCEPT !.ExecutedSteps = Append(@, rec)]
       IN  /\ now' = now + d
           /\ memory' = MemoryAfterExecute(memory, step, entered)
           /\ consecutiveFailures' = consecutiveFailures + 1
           /\ IF ThresholdReached(consecutiveFailures + 1)
                THEN /\ pc' = "recovery"
                     /\ recoveryRequests' = recoveryRequests + 1
                     /\ executionContext' = ctx
                     /\ err' = e
                     /\ executedStep' = rec
                     /\ UNCHANGED << step, validationResult, attempts >>
                ELSE /\ AfterFailure(ctx, e, rec, now + d)
                     /\ recoveryRequests' = recoveryRequests
  /\ UNCHANGED << call, controller, handlers, startTime, plan, lastValidationTime, result, returnErr, plansMade,
                  fresh, verdicts >>

\* A handler dereferences the nil page state of a failed GetPageState: panic.
StepPanic ==
  /\ pc \in {"exec", "retry"}
  /\ UsesPageStateUnchecked(step)
  /\ pc' = "crashed"
  /\ UNCHANGED << call, controller, handlers, now, startTime, plan, executionContext, memory, consecutiveFailures,
                  lastValidationTime, step, err, executedStep, validationResult, result,
                  returnErr, attempts, recoveryRequests, plansMade, fresh, verdicts >>

\* --------------------------------------------------------------- recovery
\* CreateRecoveryPlan returned a plan: it replaces the plan, and `continue`.
RecoveryOk(D) ==
  /\ pc = "recovery"
  /\ \E d \in D, p \in RecoveryPlans(plansMade + 1) :
       /\ now' = now + d
       /\ plan' = p
       /\ executionContext' = InstallPlan(executionContext, p)
  /\ consecutiveFailures' = 0
  /\ plansMade' = plansMade + 1
  /\ fresh' = "recovery"
  /\ pc' = "loop"
  /\ EndIteration
  /\ UNCHANGED << call, controller, handlers, startTime, memory, lastValidationTime, result, returnErr, attempts,
                  recoveryRequests, verdicts >>

\* CreateRecoveryPlan returned an error: the failed step gets the usual handling.
RecoveryErr(D) ==
  /\ pc = "recovery"
  /\ \E d \in D :
       /\ now' = now + d
       /\ AfterFailure(executionContext, err, executedStep, now + d)
  /\ UNCHANGED << call, controller, handlers, startTime, plan, memory, consecutiveFailures, lastValidationTime,
                  result, returnErr, recoveryRequests, plansMade, fresh, verdicts >>

\* pageState, _ := GetPageState() failed: CreateRecoveryPlan reads pageState.Content
\* of the nil page state and panics.
RecoveryPanic ==
  /\ pc = "recovery"
  /\ pc' = "crashed"
  /\ UNCHANGED << call, controller, handlers, now, startTime, plan, executionContext, memory, consecutiveFailures,
                  lastValidationTime, step, err, executedStep, validationResult, result,
                  returnErr, attempts, recoveryRequests, plansMade, fresh, verdicts >>

\* ------------------------------------------------------------------ retry
\* The retry of a critical step returned no error.
RetryOk(D) ==
  /\ pc = "retry"
  /\ \E d \in D, entered \in EmailOutcomes(step) :
       LET rec == [executedStep EXCEPT !.Success = TRUE, !.Error = NoErr]
           ctx == [executionContext EXCEPT
                     !.ExecutedSteps = LogAfterRetry(@, rec)]
       IN  /\ now' = now + d
           /\ memory' = MemoryAfterExecute(memory, step, entered)
           /\ Advance(ctx, NoErr, rec, now + d)
  /\ consecutiveFailures' = 0
  /\ UNCHANGED << call, controller, handlers, startTime, plan, lastValidationTime, result, returnErr, attempts,
                  recoveryRequests, plansMade, fresh, verdicts >>

\* The retry failed too: the task ends.
RetryFail(D) ==
  /\ pc = "retry"
  /\ \E d \in D, entered \in EmailOutcomes(step) :
       /\ now' = now + d
       /\ memory' = MemoryAfterExecute(memory, step, entered)
  /\ result' = CriticalFailureResult(ExecutedSteps, ExecErr(attempts), err)
  /\ pc' = "done"
  /\ UNCHANGED << call, controller, handlers, startTime, plan, executionContext, consecutiveFailures,
                  lastValidationTime, step, err, executedStep, validationResult,
                  returnErr, attempts, recoveryRequests, plansMade, fresh, verdicts >>

\* ------------------------------------------------------------- validation
\* ValidateProgress returned: completion ends the task, needs-replanning calls
\* Replan, anything else ends the iteration.
ValidateEnd(D) ==
  /\ pc = "validate"
  /\ \E d \in D, answer \in OracleAnswers :
       LET vr == ValidateProgress(answer)
       IN  /\ now' = now + d
           /\ lastValidationTime' = now + d
           /\ verdicts' = IF vr.IsComplete \/ vr.NeedsReplanning
                             THEN verdicts + 1 ELSE verdicts
           /\ CASE Verdict(vr) = "complete" ->
                     /\ result' = CompleteResult(ExecutedSteps, vr)
                     /\ pc' = "done"
                     /\ validationResult' = vr
                     /\ UNCHANGED << step, err, executedStep >>
                [] Verdict(vr) = "replan" ->
                     /\ pc' = "replan"
                     /\ validationResult' = vr
                     /\ UNCHANGED << result, step, err, executedStep >>
                [] OTHER ->
                     /\ pc' = "loop"
                     /\ EndIteration
                     /\ UNCHANGED result
  /\ UNCHANGED << call, controller, handlers, startTime, plan, executionContext, memory, consecutiveFailures,
                  returnErr, attempts, recoveryRequests, plansMade, fresh >>

\* pageState, _ := GetPageState() failed: ValidateProgress reads pageState.Content
\* of the nil page state and panics.
ValidatePanic ==
  /\ pc = "validate"
  /\ pc' = "crashed"
  /\ UNCHANGED << call, controller, handlers, now, startTime, plan, executionContext, memory, consecutiveFailures,
                  lastValidationTime, step, err, executedStep, validationResult, result,
                  returnErr, attempts, recoveryRequests, plansMade, fresh, verdicts >>

\* Replan returned a plan: it replaces the plan, and `continue`.
ReplanOk(D) ==
  /\ pc = "replan"
  /\ \E d \in D, r \in ReplanResponses(plansMade + 1) :
       /\ r.ok
       /\ ReplanAccepts(r.plan)
       /\ now' = now + d
       /\ plan' = r.plan
       /\ executionContext' = InstallPlan(executionContext, r.plan)
  /\ plansMade' = plansMade + 1
  /\ fresh' = "replan"
  /\ pc' = "loop"
  /\ EndIteration
  /\ UNCHANGED << call, controller, handlers, startTime, memory, consecutiveFailures, lastValidationTime, result,
                  returnErr, attempts, recoveryRequests, verdicts >>

\* Replan returned an error (the oracle failed, or the plan it sent was turned
\* down): the existing plan goes on.
ReplanErr(D) ==
  /\ pc = "replan"
  /\ \E d \in D, r \in ReplanResponses(plansMade + 1) :
       /\ ~r.ok \/ ~ReplanAccepts(r.plan)
       /\ now' = now + d
  /\ pc' = "loop"
  /\ EndIteration
  /\ UNCHANGED << call, controller, handlers, startTime, plan, executionContext, memory, consecutiveFailures,
                  lastValidationTime, result, returnErr, attempts, recoveryRequests,
                  plansMade, fresh, verdicts >>

\* ------------------------------------------------------- specifications
Next ==
  \/ CreatePlanOk
  \/ CreatePlanErr
  \/ LoopExit
  \/ TimeoutExit
  \/ BeginStep
  \/ StepOk(Durations)
  \/ StepFail(Durations, MaxFailures)
  \/ StepPanic
  \/ RecoveryOk(Durations)
  \/ RecoveryErr(Durations)
  \/ RecoveryPanic
  \/ RetryOk(Durations)
  \/ RetryFail(Durations)
  \/ ValidateEnd(Durations)
  \/ ValidatePanic
  \/ ReplanOk(Durations)
  \/ ReplanErr(Durations)

Spec == Init /\ [][Next]_vars

\* The runs in which every call returns (no panic) and every call of ExecuteStep
\* takes time, so that the wall clock advances on each iteration of the loop.
NextLive ==
  \/ CreatePlanOk
  \/ CreatePlanErr
  \/ LoopExit
  \/ TimeoutExit
  \/ BeginStep
  \/ StepOk(BusyDurations)
  \/ StepFail(BusyDurations, MaxLog)
  \/ RecoveryOk(Durations)
  \/ RecoveryErr(Durations)
  \/ RetryOk(BusyDurations)
  \/ RetryFail(BusyDurations)
  \/ ValidateEnd(Durations)
  \/ ReplanOk(Durations)
  \/ ReplanErr(Durations)

LiveSpec == Init /\ [][NextLive]_vars /\ WF_vars(NextLive)

\* ------------------------------------------------------------------- main
\* The exit status of the command: os.Exit(1) when ExecuteTask returned an
\* error; otherwise the summary is printed and main returns, whatever
\* result.Success says.
ExitStatus(e, res) == IF e # NoErr THEN 1 ELSE 0

\* main, from the return of ExecuteTask to the end of the process.
Main ==
  /\ pc = "done"
  /\ pc' = (IF ExitStatus(returnErr, result) = 0 THEN "exit0" ELSE "exit1")
  /\ UNCHANGED << call, controller, handlers, now, startTime, plan, executionContext, memory, consecutiveFailures,
                  lastValidationTime, step, err, executedStep, validationResult, result,
                  returnErr, attempts, recoveryRequests, plansMade, fresh, verdicts >>

MainNext == Next \/ Main

MainSpec == Init /\ [][MainNext]_vars

\* ------------------------------------------------- the Agent used again
\* ExecuteTask is called once more on the same Agent after it returned: its
\* locals and the ExecutionContext are made anew, a.memory is the object made
\* by NewAgent and is not touched.  The clock is read from the start of the
\* invocation, and the history starts again with it.
ExecuteTaskAgain ==
  /\ pc = "done"
  /\ Len(ExecutedSteps) <= MaxCarriedSteps
  /\ Len(memory.ProductURLs) <= MaxCarriedItems
  /\ Len(memory.CartItems) <= MaxCarriedItems
  /\ pc' = "start"
  /\ now' = 0
  /\ startTime' = 0
  /\ plan' = NoPlan
  /\ executionContext' = [Plan |-> NoPlan, ExecutedSteps |-> << >>, CurrentStepNum |-> 0]
  /\ consecutiveFailures' = 0
  /\ lastValidationTime' = ZeroTime
  /\ EndIteration
  /\ result' = NoResult
  /\ returnErr' = NoErr
  /\ attempts' = 0
  /\ recoveryRequests' = 0
  /\ plansMade' = 0
  /\ fresh' = "none"
  /\ verdicts' = 0
  /\ UNCHANGED << memory, call, controller, handlers >>

AgentNext == Next \/ ExecuteTaskAgain

AgentSpec == Init /\ [][AgentNext]_vars

\* ------------------------------------------------------ the configuration
\* The options the caller has set before ExecuteTask besides MaxSteps and
\* TotalTimeout.  ExecuteTask reads config.MaxSteps and config.TotalTimeout and
\* no other option.
EnableRecovery == FALSE

config ==
  [MaxSteps |-> MaxSteps, TotalTimeout |-> TotalTimeout, MaxRetries |-> MaxRetries,
   EnableRecovery |-> EnableRecovery]

\* ------------------------------------------- handlers called on their own
\* A price text as fmt.Sscanf(priceStr, "%f", &price) sees it: the number it
\* starts with, in hundredths, if it starts with one, and what follows.
PriceText(lead, tail) == [lead |-> lead, tail |-> tail]

\* fmt.Sscanf(text, "%f", &price) with price declared just before: the leading
\* number, and 0 when the text starts with none.
Sscanf(text) == IF text.lead = << >> THEN 0 ELSE text.lead[1]

\* The candidates extracted from the page: rating in tenths (a float64 from
\* parseFloat, 0 when the page shows none), price as text.
Products ==
  { [rating |-> 32, price |-> PriceText(<< 1250 >>, "")],
    [rating |-> 46, price |-> PriceText(<< >>, "N/A")],
    [rating |-> 41, price |-> PriceText(<< 899 >>, "")],
    [rating |-> 40, price |-> PriceText(<< 0 >>, "")],
    [rating |-> 46, price |-> PriceText(<< 899 >>, " each")],
    [rating |-> 0,  price |-> PriceText(<< >>, "")] }

ProductLists == UNION { [1..n -> Products] : n \in 1..MaxProducts }

\* The marker words that occur in strings.ToLower(criteria).
Keywords == {"first", "second", "third", "rating", "stars", "cheap", "lowest"}

\* strings.Contains(criteriaLower, w) for one of the words w.
Contains(criteria, words) == criteria \cap words # {}

\* Mutant: on equal ratings the later candidate wins.
RatingBeats_orEqual(rating, maxRating) ==
  rating >= RatingThreshold /\ rating >= maxRating

\* rating >= 4.0 && rating > maxRating
RatingBeats(rating, maxRating) ==
  rating >= RatingThreshold /\ rating > maxRating

\* Mutant: a price of 0 counts as a price.
PriceBeats_zeroCounts(price, minPrice) ==
  price >= 0 /\ (minPrice < 0 \/ price < minPrice)

\* price > 0 && (minPrice < 0 || price < minPrice)
PriceBeats(price, minPrice) ==
  price > 0 /\ (minPrice < 0 \/ price < minPrice)

\* The loop of the rating rule, from candidate i on.
RECURSIVE RatingLoop(_, _, _, _)
RatingLoop(products, i, maxRating, maxIndex) ==
  IF i > Len(products)
    THEN [maxRating |-> maxRating, maxIndex |-> maxIndex]
    ELSE IF RatingBeats(products[i].rating, maxRating)
           THEN RatingLoop(products, i + 1, products[i].rating, i - 1)
           ELSE RatingLoop(products, i + 1, maxRating, maxIndex)

\* The loop of the price rule, from candidate i on.
RECURSIVE PriceLoop(_, _, _, _)
PriceLoop(products, i, minPrice, minIndex) ==
  IF i > Len(products)
    THEN [minPrice |-> minPrice, minIndex |-> minIndex]
    ELSE IF PriceBeats(Sscanf(products[i].price), minPrice)
           THEN PriceLoop(products, i + 1, Sscanf(products[i].price), i - 1)
           ELSE PriceLoop(products, i + 1, minPrice, minIndex)

\* Mutant: the rating rule is tried before the ordinal words.
selectProductByCriteria_ratingFirst(products, criteria) ==
  IF criteria = {} THEN 0
  ELSE IF Contains(criteria, {"rating", "rated", "stars", "star"})
    THEN LET r == RatingLoop(products, 1, 0, 0)
         IN  IF r.maxRating >= RatingThreshold THEN r.maxIndex ELSE 0
  ELSE IF Contains(criteria, {"first", "1st"}) THEN 0
  ELSE IF Contains(criteria, {"second", "2nd"}) /\ Len(products) > 1 THEN 1
  ELSE IF Contains(criteria, {"third", "3rd"}) /\ Len(products) > 2 THEN 2
  ELSE IF Contains(criteria, {"cheap", "low price", "lowest"})
    THEN LET r == PriceLoop(products, 1, -1, 0)
         IN  IF r.minPrice > 0 THEN r.minIndex ELSE 0
  ELSE 0

\* Executor.selectProductByCriteria: the index (from 0) of the chosen candidate.
selectProductByCriteria(products, criteria) ==
  IF criteria = {} THEN 0
  ELSE IF Contains(criteria, {"first", "1st"}) THEN 0
  ELSE IF Contains(criteria, {"second", "2nd"}) /\ Len(products) > 1 THEN 1
  ELSE IF Contains(criteria, {"third", "3rd"}) /\ Len(products) > 2 THEN 2
  ELSE IF Contains(criteria, {"rating", "rated", "stars", "star"})
    THEN LET r == RatingLoop(products, 1, 0, 0)
         IN  IF r.maxRating >= RatingThreshold THEN r.maxIndex ELSE 0
  ELSE IF Contains(criteria, {"cheap", "low price", "lowest"})
    THEN LET r == PriceLoop(products, 1, -1, 0)
         IN  IF r.minPrice > 0 THEN r.minIndex ELSE 0
  ELSE 0

\* executeSelectProduct has read a non-empty list of candidates from the page
\* and calls selectProductByCriteria.
SelectProduct ==
  /\ call = NoCall
  /\ \E products \in ProductLists, criteria \in SUBSET Keywords :
       call' = [fn |-> "selectProductByCriteria",
                args |-> [products |-> products, criteria |-> criteria],
                ret |-> selectProductByCriteria(products, criteria)]
  /\ UNCHANGED << taskVars, controller, handlers >>

\* The action names ExecuteStep has a case for.
HandlerNames ==
  {"navigate", "click", "type", "wait", "extract", "verify", "request_auth",
   "request_credentials", "login", "scroll", "select_product", "add_to_cart",
   "proceed_checkout", "fill_address", "select_payment", "smart_action"}

\* The actions a plan step may carry: the planner accepts any non-empty name.
StepActions == HandlerNames \cup {"hover", "press_enter"}

\* Mutant: an action without a case is rejected.
HandlerOf_rejectsUnknown(action, search) ==
  IF action = "type" /\ search THEN "executeDynamicSearch"
  ELSE IF action = "smart_action" THEN "executeSmartAction"
  ELSE IF action \in HandlerNames THEN action
  ELSE "unknown action"

\* ExecuteStep's dispatch: the handler a step goes to. search says that the
\* lower-cased description contains "search". The handlers other than
\* executeDynamicSearch and executeSmartAction are named by their action.
HandlerOf(action, search) ==
  IF action = "type" /\ search THEN "executeDynamicSearch"
  ELSE IF action = "smart_action" THEN "executeSmartAction"
  ELSE IF action \in HandlerNames THEN action
  ELSE "executeSmartAction"

\* Executor.executeSmartAction: reads the page state, asks the oracle with a
\* prompt built from it, prints the answer. asked is the page state the prompt
\* was built from, none when the oracle was not called.
executeSmartAction(pageOk, oracleOk) ==
  IF ~pageOk
    THEN [Success |-> FALSE, err |-> "get page state", asked |-> << >>]
  ELSE IF ~oracleOk
    THEN [Success |-> FALSE, err |-> "get smart action",
          asked |-> << "page state" >>]
  ELSE [Success |-> TRUE, err |-> "", asked |-> << "page state" >>]

\* Executor.ExecuteStep: the handler chosen and what it returns; outcome is
\* what the handlers not modelled further return.
ExecuteStep(action, search, pageOk, oracleOk, outcome) ==
  LET handler == HandlerOf(action, search)
  IN  [handler |-> handler,
       result  |->
         IF handler = "executeSmartAction"
           THEN executeSmartAction(pageOk, oracleOk)
         ELSE [Success |-> outcome,
               err |-> IF outcome THEN "" ELSE "handler failed",
               asked |-> << >>]]

\* ExecuteStep is called with a step of a plan.
ExecuteStepCall ==
  /\ call = NoCall
  /\ \E action \in StepActions, search, pageOk, oracleOk, outcome \in BOOLEAN :
       call' = [fn |-> "ExecuteStep",
                args |-> [Action |-> action, search |-> search,
                          pageOk |-> pageOk, oracleOk |-> oracleOk],
                ret |-> ExecuteStep(action, search, pageOk, oracleOk, outcome)]
  /\ UNCHANGED << taskVars, controller, handlers >>

\* What the oracle service answers to one request: the HTTP status and the
\* content of the first choice ("" when there is none).
Responses == [status : {200, 429, 500}, content : {"", "answer"}]

\* The answers the service would give to successive requests.
ResponseLists == UNION { [1..n -> Responses] : n \in 1..MaxRequests }

\* GeminiClient.Generate: one request is sent; requests counts the requests
\* sent and delays lists the pauses made between them.
Generate(responses) ==
  LET resp == responses[1]
  IN  IF resp.status # 200
        THEN [text |-> "", err |-> << "API error", resp.status >>,
              requests |-> 1, delays |-> << >>]
      ELSE IF resp.content = ""
        THEN [text |-> "", err |-> << "no response generated" >>,
              requests |-> 1, delays |-> << >>]
      ELSE [text |-> resp.content, err |-> << >>,
            requests |-> 1, delays |-> << >>]

\* A caller (planner, validator or handler) calls llm.Generate.
GenerateCall ==
  /\ call = NoCall
  /\ \E responses \in ResponseLists :
       call' = [fn |-> "Generate", args |-> [responses |-> responses],
                ret |-> Generate(responses)]
  /\ UNCHANGED << taskVars, controller, handlers >>

\* ------------------------------------------------------------- strings
\* A Go string is modelled as the sequence of its characters.
\* strings.ToLower on the letters that occur in the inputs.
LowerOf(c) ==
  CASE c = "T" -> "t" [] c = "V" -> "v" [] c = "S" -> "s" [] OTHER -> c

ToLower(s) == [i \in 1..Len(s) |-> LowerOf(s[i])]

\* sub occurs in s at the byte offset i (from 0).
OccursAt(s, sub, i) ==
  /\ i + Len(sub) <= Len(s)
  /\ \A k \in 1..Len(sub) : s[i + k] = sub[k]

\* strings.Index(s, sub): the first offset at which sub occurs, -1 if none.
Index(s, sub) ==
  LET at == { i \in 0..Len(s) : OccursAt(s, sub, i) }
  IN  IF at = {} THEN -1 ELSE CHOOSE i \in at : \A j \in at : i <= j

\* strings.Contains(s, sub)
StrContains(s, sub) == Index(s, sub) # -1

\* strings.HasSuffix(s, suffix)
HasSuffix(s, suffix) ==
  Len(s) >= Len(suffix) /\ OccursAt(s, suffix, Len(s) - Len(suffix))

\* The slice s[from:to] of Go, offsets from 0.
Slice(s, from, to) == SubSeq(s, from + 1, to)

\* strings.TrimSpace
RECURSIVE TrimLeft(_)
TrimLeft(s) == IF s # << >> /\ Head(s) = " " THEN TrimLeft(Tail(s)) ELSE s

RECURSIVE TrimRight(_)
TrimRight(s) ==
  IF s # << >> /\ s[Len(s)] = " " THEN TrimRight(SubSeq(s, 1, Len(s) - 1)) ELSE s

TrimSpace(s) == TrimRight(TrimLeft(s))

\* The decimal digits of a natural number, as fmt prints them.
DigitChar(d) == << "0", "1", "2", "3", "4", "5", "6", "7", "8", "9" >>[d + 1]

RECURSIVE Digits(_)
Digits(n) ==
  IF n < 10 THEN << DigitChar(n) >>
  ELSE Digits(n \div 10) \o << DigitChar(n % 10) >>

\* fmt's "%d" of an int and "%.0f" of a whole float64.
FormatInt(n) == IF n < 0 THEN << "-" >> \o Digits(-n) ELSE Digits(n)

\* ----------------------------------------------------------- Step.Value
\* Step.Value is an interface{}: nil, a string, a float64 (every JSON number;
\* int + frac/10, whole when frac is 0), an int or a bool.
NilValue == [kind |-> "nil"]

StringValue(s) == [kind |-> "string", s |-> s]

Float64Value(n, frac) == [kind |-> "float64", int |-> n, frac |-> frac]

IntValue(n) == [kind |-> "int", int |-> n]

BoolValue(b) == [kind |-> "bool", b |-> b]

\* -------------------------------------------------------- extractSearchTerm
\* The values of a search step: none, "", "mug", "500ms", "drums", "http://a", 500.
SearchValues ==
  { NilValue,
    StringValue(<< >>),
    StringValue(<< "m", "u", "g" >>),
    StringValue(<< "5", "0", "0", "m", "s" >>),
    StringValue(<< "d", "r", "u", "m", "s" >>),
    StringValue(<< "h", "t", "t", "p", ":", "/", "/", "a" >>),
    Float64Value(500, 0) }

\* Step descriptions: search / search 'mug' / search 'TV' / search "mug" / a's 'mug'.
SearchDescriptions ==
  { << "s", "e", "a", "r", "c", "h" >>,
    << "s", "e", "a", "r", "c", "h", " ", "'", "m", "u", "g", "'" >>,
    << "s", "e", "a", "r", "c", "h", " ", "'", "T", "V", "'" >>,
    << "s", "e", "a", "r", "c", "h", " ", "\"", "m", "u", "g", "\"" >>,
    << "a", "'", "s", " ", "'", "m", "u", "g", "'" >> }

\* Task descriptions: "" / buy mug / find mug, pay / Search for TV /
\* find a mug of the best kind.
TaskDescriptions ==
  { << >>,
    << "b", "u", "y", " ", "m", "u", "g" >>,
    << "f", "i", "n", "d", " ", "m", "u", "g", ",", " ", "p", "a", "y" >>,
    << "S", "e", "a", "r", "c", "h", " ", "f", "o", "r", " ", "T", "V" >>,
    << "f", "i", "n", "d", " ", "a", " ", "m", "u", "g", " ", "o", "f", " ", "t", "h", "e", " ", "b", "e", "s", "t", " ", "k", "i", "n", "d" >> }

\* searchPatterns, in the order they are tried.
searchPatterns ==
  << << "s", "e", "a", "r", "c", "h", " ", "f", "o", "r", " " >>,
     << "s", "e", "a", "r", "c", "h", " " >>,
     << "f", "i", "n", "d", " " >>,
     << "l", "o", "o", "k", " ", "f", "o", "r", " " >> >>

\* The fallback term "product".
ProductTerm == << "p", "r", "o", "d", "u", "c", "t" >>

\* The text between the first two occurrences of the quote mark q in desc,
\* when it has more than two characters; << >> otherwise.
QuotedTerm(desc, q) ==
  LET idx == Index(desc, << q >>)
  IN  IF idx = -1 THEN << >>
      ELSE LET rest   == Slice(desc, idx + 1, Len(desc))
               endIdx == Index(rest, << q >>)
           IN  IF endIdx = -1 THEN << >>
               ELSE LET term == Slice(desc, idx + 1, idx + 1 + endIdx)
                    IN  IF term # << >> /\ Len(term) > 2 THEN term ELSE << >>

\* The loop over taskLower[start:]: the offset of the first ',', '.', ';' or
\* of the first ' ' past offset 10; the length of the text if there is none.
TermEnd(taskLower, start) ==
  LET rest  == Slice(taskLower, start, Len(taskLower))
      stops == { i \in 0..(Len(rest) - 1) :
                   \/ rest[i + 1] \in {",", ".", ";"}
                   \/ rest[i + 1] = " " /\ i > 10 }
  IN  IF stops = {} THEN Len(taskLower)
      ELSE start + (CHOOSE i \in stops : \A j \in stops : i <= j)

\* What one pattern yields from the task description: the trimmed text after
\* its first occurrence when that has more than two characters; << >> otherwise.
PatternTerm(taskLower, pattern) ==
  LET idx == Index(taskLower, pattern)
  IN  IF idx = -1 THEN << >>
      ELSE LET start == idx + Len(pattern)
               end   == TermEnd(taskLower, start)
           IN  IF start < end
                 THEN LET term == TrimSpace(Slice(taskLower, start, end))
                      IN  IF term # << >> /\ Len(term) > 2 THEN term ELSE << >>
                 ELSE << >>

\* The loop over searchPatterns from the k-th on: the first term found.
RECURSIVE TaskTerm(_, _)
TaskTerm(taskLower, k) ==
  IF k > Len(searchPatterns) THEN << >>
  ELSE IF PatternTerm(taskLower, searchPatterns[k]) # << >>
    THEN PatternTerm(taskLower, searchPatterns[k])
  ELSE TaskTerm(taskLower, k + 1)

\* v != "" && !strings.HasSuffix(v, "ms") && !strings.Contains(v, "://")
UsesValue(v) ==
  /\ v.kind = "string"
  /\ v.s # << >>
  /\ ~HasSuffix(v.s, << "m", "s" >>)
  /\ ~StrContains(v.s, << ":", "/", "/" >>)

\* Executor.extractSearchTerm
extractSearchTerm(st, ctx) ==
  LET desc == ToLower(st.Description)
  IN  IF UsesValue(st.Value) THEN st.Value.s
      ELSE IF QuotedTerm(desc, "'") # << >> THEN QuotedTerm(desc, "'")
      ELSE IF QuotedTerm(desc, "\"") # << >> THEN QuotedTerm(desc, "\"")
      ELSE IF ctx.TaskDescription # << >>
                /\ TaskTerm(ToLower(ctx.TaskDescription), 1) # << >>
        THEN TaskTerm(ToLower(ctx.TaskDescription), 1)
      ELSE ProductTerm

\* executeDynamicSearch calls extractSearchTerm with the step and the context.
ExtractSearchTermCall ==
  /\ call = NoCall
  /\ \E v \in SearchValues, d \in SearchDescriptions, t \in TaskDescriptions :
       LET s == [Value |-> v, Description |-> d]
           c == [TaskDescription |-> t]
       IN  call' = [fn |-> "extractSearchTerm",
                    args |-> [step |-> s, ctx |-> c],
                    ret |-> extractSearchTerm(s, c)]
  /\ UNCHANGED << taskVars, controller, handlers >>

\* ----------------------------------------------------------- GetValueString
\* The numbers a step value may hold.
ValueNumbers == {-5, 0, 7, 500, 29999, 30000, 30001, 120000}

\* The values a step may hold: those of a search step, whole and fractional
\* float64s, ints and bools.
StepValues ==
  SearchValues
    \cup { Float64Value(n, 0) : n \in ValueNumbers }
    \cup { Float64Value(n, 5) : n \in ValueNumbers \ {-5} }
    \cup { IntValue(n) : n \in ValueNumbers }
    \cup { BoolValue(b) : b \in BOOLEAN }

\* Mutant: 30000 itself still counts as a duration.
ShortNumber_inclusive(n) == n <= DurationLimit

\* v < 30000
ShortNumber(n) == n < DurationLimit

\* fmt.Sprintf("%v", v) of a float64 below 1e21: the shortest decimal form.
FormatFloat(n, frac) ==
  IF frac = 0 THEN FormatInt(n)
  ELSE FormatInt(n) \o << ".", DigitChar(frac) >>

\* Step.GetValueString
GetValueString(s) ==
  LET v == s.Value
  IN  CASE v.kind = "nil" -> << >>
        [] v.kind = "string" -> v.s
        [] v.kind = "float64" ->
             IF ShortNumber(v.int) /\ v.frac = 0
               THEN FormatInt(v.int) \o << "m", "s" >>
               ELSE FormatFloat(v.int, v.frac)
        [] v.kind = "int" ->
             IF ShortNumber(v.int)
               THEN FormatInt(v.int) \o << "m", "s" >>
               ELSE FormatInt(v.int)
        [] v.kind = "bool" ->
             IF v.b THEN << "t", "r", "u", "e" >>
                    ELSE << "f", "a", "l", "s", "e" >>

\* A handler calls step.GetValueString().
GetValueStringCall ==
  /\ call = NoCall
  /\ \E v \in StepValues :
       LET s == [Value |-> v]
       IN  call' = [fn |-> "GetValueString", args |-> [step |-> s],
                    ret |-> GetValueString(s)]
  /\ UNCHANGED << taskVars, controller, handlers >>

HandlerNext ==
  \/ GetValueStringCall
  \/ SelectProduct
  \/ ExecuteStepCall
  \/ GenerateCall
  \/ ExtractSearchTermCall

HandlerSpec == Init /\ [][HandlerNext]_vars

\* ------------------------------------------ the manual-control server
\* The Controller calls a request makes, in order: handleNavigate, the cases
\* of handleAction and of handleWebSocket, handleScreenshot, handleStatus, and
\* the deferred Close of main.
HandlerCalls ==
  { << "Navigate" >>, << "Click" >>, << "Tap" >>, << "Type" >>, << "Scroll" >>,
    << "ScrollToElement" >>, << "Swipe" >>, << "GetElementText" >>,
    << "ExecuteScript" >>, << "GetScreenshot" >>,
    << "GetCurrentURL", "GetPageTitle", "IsNavigated" >>, << "Close" >> }

\* Mutant: Lock returns whether or not the mutex is held.
CanLock_always(mu) == TRUE

\* c.mu.Lock() returns only when no goroutine holds the mutex.
CanLock(mu) == mu = Unlocked

\* A request arrives: its handler is about to call the Controller.
Request(g) ==
  /\ handlers[g].pc = "idle"
  /\ \E ops \in HandlerCalls :
       handlers' = [handlers EXCEPT ![g] = [pc |-> "lock", todo |-> ops]]
  /\ UNCHANGED << taskVars, call, controller >>

\* c.mu.Lock() at the top of the Controller method.
Lock(g) ==
  /\ handlers[g].pc = "lock"
  /\ CanLock(controller.mu)
  /\ controller' = [controller EXCEPT !.mu = g]
  /\ handlers' = [handlers EXCEPT ![g].pc = "run"]
  /\ UNCHANGED << taskVars, call >>

\* The body of the method runs against the browser (chromedp.Run, or the read
\* of isNavigated, or the cancels of Close); Navigate sets isNavigated when it
\* succeeded.
Run(g) ==
  /\ handlers[g].pc = "run"
  /\ \E ok \in BOOLEAN :
       controller' = [controller EXCEPT
                        !.isNavigated =
                           IF Head(handlers[g].todo) = "Navigate" /\ ok
                             THEN TRUE ELSE @]
  /\ handlers' = [handlers EXCEPT ![g].pc = "unlock"]
  /\ UNCHANGED << taskVars, call >>

\* The deferred c.mu.Unlock(); the handler goes on to its next Controller call
\* or answers the request.
Unlock(g) ==
  /\ handlers[g].pc = "unlock"
  /\ controller' = [controller EXCEPT !.mu = Unlocked]
  /\ handlers' = [handlers EXCEPT
                    ![g] = IF Len(@.todo) > 1
                             THEN [pc |-> "lock", todo |-> Tail(@.todo)]
                             ELSE IdleHandler]
  /\ UNCHANGED << taskVars, call >>

ControllerNext ==
  \E g \in Goroutines : Request(g) \/ Lock(g) \/ Run(g) \/ Unlock(g)

ControllerSpec == Init /\ [][ControllerNext]_vars

\* ------------------------------------------------------------- the claims
Last(seq) == seq[Len(seq)]

\* No simulated failure so far: every call of ExecuteStep succeeded, the initial
\* plan is still the plan, the validator reported neither completion nor
\* needs-replanning, and nothing panicked.
CleanRun ==
  /\ Failed(ExecutedSteps) = {}
  /\ attempts = Len(ExecutedSteps)
  /\ plansMade = 1
  /\ verdicts = 0
  /\ pc # "crashed"

\* C1: a run of a plan of N <= MaxSteps steps (N = MaxSteps included) without
\* simulated failures, and not cut short by the total timeout, returns
\* Success = true with StepsExecuted = N.
C1_CleanRunSucceeds ==
  ( /\ pc = "done"
    /\ returnErr = NoErr
    /\ CleanRun
    /\ Len(plan.Steps) <= MaxSteps
    /\ result.Error.msg # "total timeout exceeded" )
  => (result.Success /\ result.StepsExecuted = Len(plan.Steps))

\* C2: across the initial plan and every replan and recovery plan, the length
\* of ExecutedSteps never exceeds MaxSteps.
C2_WorkBoundedByMaxSteps == Len(ExecutedSteps) <= MaxSteps

\* C3: when every call returns and the wall clock advances on each iteration,
\* every run of ExecuteTask eventually returns.
C3_Terminates == <>(pc = "done")

\* A run that was given a fresh plan by Replan and later ended at the total timeout.
C3_Witness ==
  /\ pc = "done"
  /\ plansMade >= 2
  /\ verdicts >= 1
  /\ result.Error.msg = "total timeout exceeded"

\* A call of ExecuteStep (not a retry) has just returned an error.
FirstAttemptFailed ==
  /\ pc = "exec"
  /\ Len(ExecutedSteps') = Len(ExecutedSteps) + 1
  /\ ~Last(ExecutedSteps').Success

\* The request for a recovery plan has just returned without a plan.
RecoveryRefused == pc = "recovery" /\ pc' # "crashed" /\ fresh' # "recovery"

\* The retry of a critical step has just returned an error.
RetryFailed == pc = "retry" /\ pc' = "done"

\* C4: a failed critical step for which no recovery plan is installed is
\* retried, once, with the identical Step; when the retry fails too, the task
\* ends at once with Success = false and an error wrapping the retry's error,
\* and no further step is executed.
C4_Step ==
  /\ (FirstAttemptFailed /\ step.Critical /\ pc' # "recovery")
       => (pc' = "retry" /\ step' = step /\ attempts' = attempts + 1)
  /\ (RecoveryRefused /\ step.Critical)
       => (pc' = "retry" /\ step' = step /\ attempts' = attempts + 1)
  /\ (pc' = "retry" /\ pc # "retry")
       => (step'.Critical /\ Last(ExecutedSteps').Step = step'
             /\ ~Last(ExecutedSteps').Success)
  /\ (pc = "retry") => (pc' # "retry" \/ UNCHANGED vars)
  /\ (pc = "retry") => (attempts' = attempts /\ step' \in {step, NoStep})
  /\ RetryFailed
       => /\ ~result'.Success
          /\ result'.Error = [msg |-> "critical step failed after retry",
                              wraps |-> attempts]
          /\ result'.StepsExecuted = Len(ExecutedSteps)
          /\ ExecutedSteps' = ExecutedSteps
  /\ (pc = "done") => (attempts' = attempts /\ ExecutedSteps' = ExecutedSteps)

C4_CriticalRetriedOnce == [][C4_Step]_vars

\* The retry of a critical step failed after the recovery request was refused.
C4_Witness ==
  /\ pc = "done"
  /\ result.Error.msg = "critical step failed after retry"
  /\ recoveryRequests >= 1
  /\ attempts = Len(ExecutedSteps) + 1

\* C5: after a critical step failed and then succeeded on its retry, its record
\* in ExecutedSteps has Success = true and no error, and consecutiveFailures is 0.
C5_RetrySuccessRecorded ==
  [][ (pc = "retry" /\ pc' \in {"loop", "validate"})
        => /\ Last(ExecutedSteps').Success
           /\ Last(ExecutedSteps').Error = NoErr
           /\ consecutiveFailures' = 0 ]_vars

\* C6: when a failed step brings consecutiveFailures to maxConsecutiveFailures
\* a recovery plan is requested; when one is returned it replaces the plan,
\* CurrentStepNum and consecutiveFailures are 0 before anything else runs, the
\* failed step is not retried, and the next step executed is the first step of
\* the recovery plan.
C6_Step ==
  /\ (FirstAttemptFailed /\ consecutiveFailures' >= maxConsecutiveFailures)
        => (pc' = "recovery" /\ recoveryRequests' = recoveryRequests + 1)
  /\ (FirstAttemptFailed /\ consecutiveFailures' < maxConsecutiveFailures)
        => (pc' # "recovery" /\ recoveryRequests' = recoveryRequests)
  /\ (pc = "recovery" /\ fresh' = "recovery")
        => /\ plansMade' = plansMade + 1
           /\ plan' = executionContext'.Plan
           /\ \A i \in 1..Len(plan'.Steps) : plan'.Steps[i].Description = << plansMade', i >>
           /\ CurrentStepNum' = 0
           /\ consecutiveFailures' = 0
           /\ pc' = "loop"
           /\ attempts' = attempts
           /\ ExecutedSteps' = ExecutedSteps
  /\ (fresh = "recovery" /\ pc' = "exec")
        => /\ CurrentStepNum = 0
           /\ consecutiveFailures = 0
           /\ step' = executionContext.Plan.Steps[1]
           /\ step'.Description = << plansMade, 1 >>
  /\ (fresh = "recovery" /\ fresh' = "recovery")
        => UNCHANGED << plan, executionContext, consecutiveFailures, attempts >>

C6_RecoveryPlanInstalled == [][C6_Step]_vars

C6_Witness ==
  /\ pc = "exec"
  /\ recoveryRequests = 1
  /\ plansMade = 2
  /\ verdicts = 0
  /\ step = plan.Steps[1]
  /\ step.Description = << 2, 1 >>
  /\ Len(ExecutedSteps) = maxConsecutiveFailures
  /\ Failed(ExecutedSteps) = 1..maxConsecutiveFailures

\* Every ExecuteStep call made so far has failed, under the initial plan.
AllFailing == plansMade = 1 /\ consecutiveFailures = Len(ExecutedSteps)

\* C7 as stated: with every call failing, a run that does not end on a critical
\* step makes maxConsecutiveFailures failing attempts of the same step and then
\* requests a recovery plan once.
C7_SameStepAttempted ==
  (AllFailing /\ recoveryRequests >= 1)
     => \A i, j \in 1..Len(ExecutedSteps) : ExecutedSteps[i].Step = ExecutedSteps[j].Step

\* C7 amended: with every call failing, the loop makes one attempt at each
\* successive step of the plan (none is attempted again unless it is critical);
\* a critical step that fails below the threshold is retried and the run ends
\* with the critical-step failure; the recovery plan is requested exactly when
\* the failure count reaches maxConsecutiveFailures, once per such failure.
C7_SuccessiveStepsFail ==
  AllFailing =>
     /\ \A i \in 1..Len(ExecutedSteps) : ExecutedSteps[i].Step = plan.Steps[i]
     /\ recoveryRequests = (IF Len(ExecutedSteps) < maxConsecutiveFailures
                              THEN 0
                              ELSE Len(ExecutedSteps) - maxConsecutiveFailures + 1)
     /\ (pc = "retry") => Last(ExecutedSteps).Step.Critical
     /\ (pc = "done" /\ result.Error.msg = "critical step failed after retry")
           => (Last(ExecutedSteps).Step.Critical /\ attempts = Len(ExecutedSteps) + 1)
     /\ (/\ Len(ExecutedSteps) \in 1..(maxConsecutiveFailures - 1)
         /\ Last(ExecutedSteps).Step.Critical
         /\ pc # "exec")
           => /\ pc \in {"retry", "done", "crashed"}
              /\ (pc = "done") => result.Error.msg = "critical step failed after retry"

C7_Witness ==
  /\ AllFailing
  /\ pc = "recovery"
  /\ Len(ExecutedSteps) = maxConsecutiveFailures
  /\ recoveryRequests = 1
  /\ ExecutedSteps[1].Step # ExecutedSteps[2].Step
  /\ ExecutedSteps[2].Step # ExecutedSteps[3].Step

\* C8: a validation that reports completion ends the run at once with
\* Success = TRUE, also when steps remain and needs-replanning is reported
\* too; StepsExecuted is the number of steps run, not the length of the plan.
C8_Step ==
  /\ (pc = "validate" /\ validationResult'.IsComplete)
        => /\ pc' = "done"
           /\ result'.Success
           /\ result'.Error = NoErr
           /\ result'.StepsExecuted = Len(ExecutedSteps)
           /\ ExecutedSteps' = ExecutedSteps
           /\ attempts' = attempts
           /\ plansMade' = plansMade
  /\ (pc = "done") => UNCHANGED vars

C8_CompleteEndsRun == [][C8_Step]_vars

C8_Witness ==
  /\ pc = "done"
  /\ validationResult.IsComplete
  /\ validationResult.NeedsReplanning
  /\ result.Success
  /\ CurrentStepNum < Len(plan.Steps)
  /\ result.StepsExecuted < Len(plan.Steps)
  /\ plansMade = 1

\* C9: validation is entered only straight from a step execution that returned
\* no error, never before validationInterval steps have completed, and never
\* within the cooldown after the previous validation, whose time is stamped
\* when it returns.
C9_Step ==
  /\ (pc' = "validate" /\ pc # "validate")
        => /\ pc \in {"exec", "retry"}
           /\ err' = NoErr
           /\ Len(ExecutedSteps') >= validationInterval
           /\ CurrentStepNum' >= validationInterval
           /\ CurrentStepNum' % validationInterval = 0
           /\ (lastValidationTime' = ZeroTime
                 \/ now' - lastValidationTime' > ValidationCooldown)
  /\ (pc = "validate" /\ pc' \notin {"validate", "crashed"})
        => lastValidationTime' = now'
  /\ (pc # "validate") => lastValidationTime' = lastValidationTime

C9_ValidationGated == [][C9_Step]_vars

C9_Witness ==
  /\ pc = "validate"
  /\ lastValidationTime # ZeroTime
  /\ now - lastValidationTime > ValidationCooldown
  /\ Len(ExecutedSteps) >= 2 * validationInterval

\* C10: after a needs-replanning verdict, a plan returned by Replan replaces
\* the plan with CurrentStepNum = 0 and the next step executed is its first
\* step; when Replan fails, the plan and CurrentStepNum stay as they are and
\* the loop goes on with the next step of that plan.
C10_Step ==
  /\ (pc = "validate" /\ ~validationResult'.IsComplete /\ validationResult'.NeedsReplanning)
        => pc' = "replan"
  /\ (pc = "replan" /\ fresh' = "replan")
        => /\ plansMade' = plansMade + 1
           /\ plan' = executionContext'.Plan
           /\ plan'.Steps # << >>
           /\ \A i \in 1..Len(plan'.Steps) : plan'.Steps[i].Description = << plansMade', i >>
           /\ CurrentStepNum' = 0
           /\ ExecutedSteps' = ExecutedSteps
           /\ pc' = "loop"
  /\ (fresh = "replan" /\ pc' = "exec")
        => /\ step' = executionContext.Plan.Steps[1]
           /\ step'.Description = << plansMade, 1 >>
  /\ (pc = "replan" /\ pc' # "replan" /\ fresh' # "replan")
        => /\ plan' = plan
           /\ executionContext' = executionContext
           /\ plansMade' = plansMade
           /\ pc' = "loop"
  /\ (pc = "loop" /\ pc' = "exec")
        => /\ step' = plan.Steps[CurrentStepNum + 1]
           /\ UNCHANGED << plan, executionContext >>

C10_ReplanOutcome == [][C10_Step]_vars

C10_Witness ==
  /\ pc = "exec"
  /\ plansMade = 2
  /\ recoveryRequests = 0
  /\ verdicts = 1
  /\ step.Description = << 2, 1 >>
  /\ Len(ExecutedSteps) = validationInterval

\* C11: validation never aborts the task: an oracle failure or an unparsable
\* answer yields IsComplete = FALSE, NeedsReplanning = FALSE; every validation
\* is followed by the loop going on (after such an answer with plan,
\* CurrentStepNum and ExecutedSteps as they were), by a replan, or by the
\* successful result, and never by anything else.
C11_Step ==
  /\ \A answer \in OracleAnswers :
        answer.kind \in {"error", "garbage"}
          => /\ ~ValidateProgress(answer).IsComplete
             /\ ~ValidateProgress(answer).NeedsReplanning
  /\ (pc = "validate") => pc' \in {"loop", "replan", "done"}
  /\ (pc = "validate" /\ pc' = "loop")
        => UNCHANGED << plan, executionContext, memory, result, returnErr >>
  /\ (pc = "validate" /\ pc' = "done") => (result'.Success /\ returnErr' = NoErr)

C11_ValidationNeverAborts == [][C11_Step]_vars

\* C12: once the elapsed time exceeds TotalTimeout, the check at the top of the
\* next iteration returns the total-timeout failure with StepsExecuted the
\* number of steps executed so far and starts no step; the timeout result is
\* produced nowhere else, so no step is cut short.
C12_Step ==
  /\ (pc = "loop" /\ LoopCondition(CurrentStepNum, plan) /\ now - startTime > TotalTimeout)
        => /\ pc' = "done"
           /\ ~result'.Success
           /\ result'.Error = [msg |-> "total timeout exceeded", wraps |-> 0]
           /\ result'.StepsExecuted = Len(ExecutedSteps)
           /\ returnErr' = NoErr
           /\ UNCHANGED << executionContext, attempts, memory, now >>
  /\ (pc = "loop" /\ pc' = "exec") => now - startTime <= TotalTimeout
  /\ (result'.Error.msg = "total timeout exceeded" /\ result.Error.msg # "total timeout exceeded")
        => (pc = "loop" /\ now - startTime > TotalTimeout)
  /\ (pc \in {"exec", "retry"}) => pc' \in {"exec", "retry", "loop", "validate", "recovery", "done", "crashed"}
  /\ (pc \in {"exec", "retry"} /\ pc' = "done")
        => result'.Error.msg = "critical step failed after retry"

C12_TimeoutAtIterationTop == [][C12_Step]_vars

C12_Witness ==
  /\ pc = "done"
  /\ result.Error.msg = "total timeout exceeded"
  /\ ~result.Success
  /\ now - startTime > TotalTimeout
  /\ result.StepsExecuted = Len(ExecutedSteps)
  /\ Len(ExecutedSteps) >= 1
  /\ CurrentStepNum < Len(plan.Steps)

\* C13: the command exits with a non-zero status whenever the TaskResult of
\* ExecuteTask has Success = FALSE.
C13_FailureExitsNonZero == (pc = "exit0") => result.Success

\* The task has ended without the successful result.
TaskFailed ==
  \/ pc = "crashed"
  \/ pc = "done" /\ (returnErr # NoErr \/ ~result.Success)

\* C14: a task fails only for one of four reasons: the initial plan could not
\* be made, a critical step failed again on its retry, the total timeout was
\* exceeded, MaxSteps was reached.
C14_OnlyFourFailures ==
  TaskFailed =>
     /\ pc = "done"
     /\ \/ returnErr.msg = "create plan"
        \/ /\ returnErr = NoErr
           /\ result.Error.msg \in {"critical step failed after retry",
                                    "total timeout exceeded",
                                    "max steps exceeded"}

\* C15: neither a step handler nor the loop ever crashes the process.
C15_NeverCrashes == pc # "crashed"

\* C16: Memory changes only by the merge of the declared data of a step that
\* succeeded; a step execution that returns an error leaves Memory as it was.
C16_Step ==
  /\ (FirstAttemptFailed \/ RetryFailed) => memory' = memory
  /\ (memory' # memory)
        => /\ pc = "exec"
           /\ Len(ExecutedSteps') = Len(ExecutedSteps) + 1
           /\ Last(ExecutedSteps').Success
           /\ memory' = updateMemory(memory, StepData(step))

C16_MemoryOnlyMerged == [][C16_Step]_vars

\* The value v is held by Memory, by the log of executed steps, by the declared
\* data of an authentication step, or by the result of the task.
Holds(v) ==
  \/ \E k \in DOMAIN memory.UserCredentials : memory.UserCredentials[k] = v
  \/ \E i \in 1..Len(ExecutedSteps) :
        \/ ExecutedSteps[i].Error.msg = v
        \/ ExecutedSteps[i].Step.Action = v
        \/ /\ ExecutedSteps[i].Step.Action = "login"
           /\ LET r == AuthResult(EnteredEmail, EnteredPassword)
              IN  r.Message = v \/ \E k \in DOMAIN r.Data : r.Data[k] = v
  \/ err.msg = v
  \/ executedStep.Error.msg = v
  \/ result.Error.msg = v
  \/ result.FinalState = v
  \/ returnErr.msg = v

\* C17: the password read by the authentication handler is never held by
\* Memory, by the log of executed steps or by a step's result, whether the
\* login step succeeds or fails.
C17_PasswordNotStored == ~Holds(EnteredPassword)

C17_Witness ==
  /\ \E i \in 1..Len(ExecutedSteps) :
        ExecutedSteps[i].Step.Action = "login" /\ ~ExecutedSteps[i].Success
  /\ \E i \in 1..Len(ExecutedSteps) :
        ExecutedSteps[i].Step.Action = "login" /\ ExecutedSteps[i].Success
  /\ memory.UserCredentials = ("email" :> EnteredEmail)

\* C18: after the authentication step no agent state holds a credential the
\* user entered, e-mail or password.
C18_NoCredentialKept == ~Holds(EnteredEmail) /\ ~Holds(EnteredPassword)

\* C19: every invocation of ExecuteTask starts with an empty Memory, so that
\* nothing a task recorded is visible to a later task on the same Agent.
C19_FreshMemoryPerTask == (pc = "start") => memory = EmptyMemory

\* C20: every plan installed as the current plan, by CreatePlan, Replan or
\* CreateRecoveryPlan, has at least one step.
C20_InstalledPlanNonEmpty ==
  (plansMade >= 1) => (plan.Steps # << >> /\ executionContext.Plan.Steps # << >>)

\* A plan as Replan must not return it: a step without an action, or a click,
\* type, extract, verify or navigate step without a target.
HasBadStep(p) ==
  \E i \in 1..Len(p.Steps) :
     \/ p.Steps[i].Action = ""
     \/ /\ p.Steps[i].Action \in {"click", "type", "extract", "verify", "navigate"}
        /\ p.Steps[i].Target = ""

\* C21: Replan turns down every oracle output with a step that has no action,
\* or a click, type, extract, verify or navigate step that has no target; the
\* plan installed by a replan has no such step, and when the output is turned
\* down the current plan stays in force.
C21_Step ==
  /\ \A r \in ReplanResponses(plansMade + 1) : HasBadStep(r.plan) => ~ReplanAccepts(r.plan)
  /\ (pc = "replan" /\ fresh' = "replan") => ~HasBadStep(plan')
  /\ (pc = "replan" /\ plan' # plan) => (fresh' = "replan" /\ ~HasBadStep(plan'))
  /\ (pc = "replan" /\ fresh' # "replan") => UNCHANGED << plan, executionContext >>
  /\ (fresh = "replan") => ~HasBadStep(plan)

C21_ReplanRejectsBadSteps == [][C21_Step]_vars

C21_Witness ==
  /\ fresh = "replan"
  /\ pc = "loop"
  /\ plan.Steps[1].Action = "navigate"
  /\ plan.Steps[1].Target # ""
  /\ \E i \in 1..Len(plan.Steps) :
        plan.Steps[i].Action = "select_product" /\ plan.Steps[i].Target = ""

\* C22: the loop honours the options the caller has set: a recovery plan is
\* requested exactly when a failure brings consecutiveFailures to
\* config.MaxRetries and recovery is enabled, and never when it is disabled.
C22_Step ==
  /\ FirstAttemptFailed
        => ((pc' = "recovery")
              <=> (config.EnableRecovery /\ consecutiveFailures' >= config.MaxRetries))
  /\ (~config.EnableRecovery) => recoveryRequests' = 0

C22_ConfigHonoured == [][C22_Step]_vars

\* Helpers of the product-selection claims, spelled from the claims' words.
SelectCalled == call.fn = "selectProductByCriteria"

\* The ordinal positions (from 0) that the criteria name and that exist.
OrdinalsNamed(products, criteria) ==
  { k \in 0..2 :
      /\ k < Len(products)
      /\ \/ k = 0 /\ "first" \in criteria
         \/ k = 1 /\ "second" \in criteria
         \/ k = 2 /\ "third" \in criteria }

NamesRating(criteria) == criteria \cap {"rating", "stars"} # {}

NamesPrice(criteria) == criteria \cap {"cheap", "lowest"} # {}

\* The first of the highest-rated candidates rated at least 4.0; 0 if none.
ByRating(products) ==
  LET good == { i \in 1..Len(products) : products[i].rating >= 40 }
  IN  IF good = {} THEN 0
      ELSE (CHOOSE i \in good :
              /\ \A j \in good : products[j].rating <= products[i].rating
              /\ \A j \in good : j < i =>
                                   products[j].rating < products[i].rating) - 1

\* The price a text stands for: its number, nothing when it has none.
PricedAt(product) ==
  IF product.price.lead = << >> THEN 0 ELSE product.price.lead[1]

\* The first of the lowest strictly positive prices; 0 if none.
ByPrice(products) ==
  LET priced == { i \in 1..Len(products) : PricedAt(products[i]) > 0 }
  IN  IF priced = {} THEN 0
      ELSE (CHOOSE i \in priced :
              /\ \A j \in priced : PricedAt(products[j]) >= PricedAt(products[i])
              /\ \A j \in priced : j < i =>
                                     PricedAt(products[j]) > PricedAt(products[i])) - 1

\* C23: in selecting a product, an ordinal word of the criteria (first, second,
\* third, when that many candidates exist) decides the index whatever the
\* ratings and prices are (the lowest position when several are named);
\* otherwise a rating word applies the rating rule; otherwise a price word
\* applies the price rule; otherwise the index is 0.
C23_SelectionPrecedence ==
  SelectCalled =>
    LET products == call.args.products
        criteria == call.args.criteria
        ords     == OrdinalsNamed(products, criteria)
    IN  IF ords # {}
          THEN call.ret \in ords /\ \A k \in ords : call.ret <= k
        ELSE IF NamesRating(criteria) THEN call.ret = ByRating(products)
        ELSE IF NamesPrice(criteria) THEN call.ret = ByPrice(products)
        ELSE call.ret = 0

\* C23 witness: "second" is named together with a rating word and a price word,
\* and the second candidate is chosen although both rules point elsewhere.
C23_Witness ==
  /\ SelectCalled
  /\ {"second", "rating", "cheap"} \subseteq call.args.criteria
  /\ "first" \notin call.args.criteria
  /\ Len(call.args.products) = 3
  /\ ByRating(call.args.products) = 2
  /\ ByPrice(call.args.products) = 0
  /\ call.ret = 1

C24_TieWitness ==
  /\ SelectCalled
  /\ call.args.criteria = {"stars"}
  /\ Len(call.args.products) = 3
  /\ call.args.products[2].rating = 46
  /\ call.args.products[3].rating = 46
  /\ call.ret = 1

\* C25: under a price criterion (no ordinal or rating word applying) the
\* chosen candidate has the lowest strictly positive price, the first of them
\* on equal prices; prices with no number or not positive are passed over;
\* index 0 when no candidate has a positive price; of the prices 12.50, "N/A",
\* 8.99 the one at 8.99 is chosen.
C25_PriceRule ==
  (/\ SelectCalled
   /\ NamesPrice(call.args.criteria)
   /\ ~NamesRating(call.args.criteria)
   /\ OrdinalsNamed(call.args.products, call.args.criteria) = {})
  => LET products == call.args.products
         chosen   == call.ret + 1
         priced   == { i \in 1..Len(products) : PricedAt(products[i]) > 0 }
     IN  /\ chosen \in 1..Len(products)
         /\ priced = {} => call.ret = 0
         /\ priced # {} =>
              /\ chosen \in priced
              /\ \A j \in priced :
                    PricedAt(products[j]) >= PricedAt(products[chosen])
              /\ \A j \in priced : j < chosen =>
                    PricedAt(products[j]) > PricedAt(products[chosen])
         /\ (Len(products) = 3
               /\ products[1].price = PriceText(<< 1250 >>, "")
               /\ products[2].price = PriceText(<< >>, "N/A")
               /\ products[3].price = PriceText(<< 899 >>, ""))
              => call.ret = 2

\* C25 witness: the prices 12.50, "N/A", 8.99 under a price criterion, the
\* third candidate chosen.
C25_Witness ==
  /\ SelectCalled
  /\ call.args.criteria = {"cheap"}
  /\ Len(call.args.products) = 3
  /\ call.args.products[1].price = PriceText(<< 1250 >>, "")
  /\ call.args.products[2].price = PriceText(<< >>, "N/A")
  /\ call.args.products[3].price = PriceText(<< 899 >>, "")
  /\ call.ret = 2

\* C26: a step whose action has no handler of its own is never rejected as
\* unknown: ExecuteStep hands it to the generic fallback handler, which asks
\* the oracle with the current page state, and the step fails only if the page
\* state cannot be read or the oracle call fails.
C26_UnknownActionFallsBack ==
  (call.fn = "ExecuteStep" /\ call.args.Action \notin HandlerNames)
  => /\ call.ret.handler = "executeSmartAction"
     /\ call.ret.result.err # "unknown action"
     /\ call.args.pageOk => call.ret.result.asked = << "page state" >>
     /\ call.ret.result.Success <=> (call.args.pageOk /\ call.args.oracleOk)
     /\ ~call.ret.result.Success =>
          call.ret.result.err \in {"get page state", "get smart action"}

\* C26 witness: a step with the action "hover" was handed to the fallback
\* handler, the oracle was asked with the page state, and the step succeeded.
C26_Witness ==
  /\ call.fn = "ExecuteStep"
  /\ call.args.Action = "hover"
  /\ call.ret.handler = "executeSmartAction"
  /\ call.ret.result.asked = << "page state" >>
  /\ call.ret.result.Success

\* C27: when the oracle service answers a request with a rate-limit error
\* (status 429), the client does not return the error after that single
\* attempt: it sends the request again, after a pause, and a later good answer
\* is returned to the caller.
C27_RateLimitRetried ==
  (/\ call.fn = "Generate"
   /\ Len(call.args.responses) > 1
   /\ call.args.responses[1].status = 429)
  => /\ call.ret.requests > 1
     /\ Len(call.ret.delays) = call.ret.requests - 1
     /\ (call.args.responses[2].status = 200
           /\ call.args.responses[2].content # "")
          => call.ret.err = << >>

\* C28: at every point of a run where no attempt is under way, the length of
\* ExecutedSteps equals the number of step execution attempts made so far, the
\* retry of a critical step counted as an attempt.
C28_LogLengthIsAttempts ==
  pc \notin {"exec", "retry", "crashed"} => Len(ExecutedSteps) = attempts

\* C29: when the failure threshold is reached and the request for a recovery
\* plan fails, the failed step gets the normal handling: a critical step is
\* retried (one more attempt of the same step at the same position), a
\* non-critical step is skipped, and neither the plan nor CurrentStepNum is
\* reset by the failed request.
C29_Step ==
  RecoveryRefused =>
    /\ plan' = plan
    /\ executionContext'.Plan = executionContext.Plan
    /\ plansMade' = plansMade
    /\ executionContext'.ExecutedSteps = executionContext.ExecutedSteps
    /\ IF step.Critical
         THEN /\ pc' = "retry"
              /\ step' = step
              /\ attempts' = attempts + 1
              /\ CurrentStepNum' = CurrentStepNum
         ELSE /\ pc' \in {"loop", "validate"}
              /\ attempts' = attempts
              /\ CurrentStepNum' = CurrentStepNum + 1

C29_FailedRecoveryFallsThrough == [][C29_Step]_vars

\* C29 witness: the retry of a critical step is under way at a position past
\* the start of the plan, after a recovery request that failed.
C29_Witness ==
  /\ pc = "retry"
  /\ step.Critical
  /\ consecutiveFailures >= maxConsecutiveFailures
  /\ recoveryRequests > 0
  /\ plansMade = 1
  /\ CurrentStepNum > 0

\* An attempt of the step in hand has just succeeded: the first attempt, or the
\* retry of a critical step.
AttemptSucceeded ==
  \/ /\ pc = "exec"
     /\ Len(ExecutedSteps') = Len(ExecutedSteps) + 1
     /\ Last(ExecutedSteps').Success
  \/ /\ pc = "retry"
     /\ pc' \in {"loop", "validate"}

\* The data are in the memory: each declared key at its place.
Merged(mem, before, data) ==
  /\ "current_page" \in DOMAIN data => mem.CurrentPage = data["current_page"]
  /\ "selected_product" \in DOMAIN data =>
        mem.SelectedProduct = data["selected_product"]
  /\ "product_url" \in DOMAIN data =>
        mem.ProductURLs = Append(before.ProductURLs, data["product_url"])
  /\ "cart_item" \in DOMAIN data =>
        mem.CartItems = Append(before.CartItems, data["cart_item"])

\* C30: whenever an attempt of a step succeeds, the first attempt or the retry
\* of a critical step, and its result declares data, the data are merged into
\* Memory once the success is known and before the next step begins.
C30_Step ==
  (AttemptSucceeded /\ StepData(step) # << >>)
    => Merged(memory', memory, StepData(step))

C30_DataMergedOnSuccess == [][C30_Step]_vars

\* The sequence s is a prefix of the sequence t.
IsPrefix(s, t) ==
  /\ Len(s) <= Len(t)
  /\ \A i \in 1..Len(s) : t[i] = s[i]

\* C31: ExecutedSteps is append-only and in execution order: in every
\* transition of the loop the previous log is a prefix of the new one, a new
\* record is the record of the step just executed, and the resets of a replan
\* or of a recovery leave the log as it is.
C31_Step ==
  /\ IsPrefix(ExecutedSteps, ExecutedSteps')
  /\ Len(ExecutedSteps') <= Len(ExecutedSteps) + 1
  /\ Len(ExecutedSteps') = Len(ExecutedSteps) + 1 =>
        pc = "exec" /\ Last(ExecutedSteps').Step = step
  /\ plan' # plan => ExecutedSteps' = ExecutedSteps

C31_LogAppendOnly == [][C31_Step]_vars

\* C31 witness: a recovery plan has just been installed over a log that holds
\* the three failures, after a critical step was retried with success earlier.
C31_Witness ==
  /\ fresh = "recovery"
  /\ CurrentStepNum = 0
  /\ Len(ExecutedSteps) > maxConsecutiveFailures
  /\ attempts > Len(ExecutedSteps)

\* C32: CurrentStepNum changes only by +1 after a step, the plan staying, or
\* by a reset to 0 in the transition that replaces the plan by a replan or by
\* a recovery plan; it never decreases while the plan stays.
C32_Step ==
  CurrentStepNum' # CurrentStepNum =>
    \/ /\ CurrentStepNum' = CurrentStepNum + 1
       /\ pc \in {"exec", "recovery", "retry"}
       /\ plan' = plan
       /\ executionContext'.Plan = executionContext.Plan
    \/ /\ CurrentStepNum' = 0
       /\ pc \in {"recovery", "replan"}
       /\ plan' # plan
       /\ executionContext'.Plan = plan'
       /\ plansMade' = plansMade + 1

C32_StepNumberMoves == [][C32_Step]_vars

\* C32 witness: a replan has reset the position and the first step of the new
\* plan has been passed since.
C32_Witness ==
  /\ plansMade = 2
  /\ recoveryRequests = 0
  /\ plan.Steps[1].Description[1] = 2
  /\ CurrentStepNum = 1
  /\ pc = "loop"

\* C33: every step handed to the executor, the retry of a critical step
\* included, is the step at index CurrentStepNum of the plan the
\* ExecutionContext refers to at that moment; once a plan has been replaced
\* none of its remaining steps is executed.
C33_StepOfCurrentPlan ==
  pc \in {"exec", "retry"} =>
    /\ plan = executionContext.Plan
    /\ CurrentStepNum < Len(executionContext.Plan.Steps)
    /\ step = executionContext.Plan.Steps[CurrentStepNum + 1]
    /\ step.Description[1] = plansMade

\* C33 witness: the retry of a critical step of a recovery plan is under way
\* past the first step of that plan.
C33_Witness ==
  /\ pc = "retry"
  /\ plansMade = 2
  /\ recoveryRequests = 1
  /\ CurrentStepNum > 0
  /\ step = executionContext.Plan.Steps[CurrentStepNum + 1]

\* Helpers of the search-term claim, spelled from the claim's words.
SearchCalled == call.fn = "extractSearchTerm"

\* A duration-like text: digits followed by the unit ms.
DurationLike(s) ==
  /\ Len(s) > 2
  /\ s[Len(s) - 1] = "m" /\ s[Len(s)] = "s"
  /\ \A i \in 1..(Len(s) - 2) :
        s[i] \in {"0", "1", "2", "3", "4", "5", "6", "7", "8", "9"}

\* A URL-like text: it has a scheme separator.
URLLike(s) == \E i \in 0..Len(s) : OccursAt(s, << ":", "/", "/" >>, i)

\* The step's explicit value is a string fit to be searched for.
ExplicitTerm(v) ==
  v.kind = "string" /\ v.s # << >> /\ ~DurationLike(v.s) /\ ~URLLike(v.s)

\* The non-empty texts that stand between two quote marks of the same kind
\* with no such mark in between.
QuotedSubstrings(d) ==
  { SubSeq(d, i + 1, j - 1) :
      <<i, j>> \in { w \in (1..Len(d)) \X (1..Len(d)) :
                       /\ w[1] + 1 < w[2]
                       /\ d[w[1]] \in {"'", "\""}
                       /\ d[w[2]] = d[w[1]]
                       /\ \A k \in (w[1] + 1)..(w[2] - 1) : d[k] # d[w[1]] } }

\* The offsets just past an occurrence of a search pattern that some text of
\* the task description follows.
PhraseStarts(t) ==
  { i + Len(searchPatterns[k]) :
      <<i, k>> \in { w \in (0..Len(t)) \X (1..Len(searchPatterns)) :
                       /\ OccursAt(t, searchPatterns[w[2]], w[1])
                       /\ TrimSpace(Slice(t, w[1] + Len(searchPatterns[w[2]]),
                                          Len(t))) # << >> } }

\* C34: the search term is chosen by a strict priority order and is never
\* empty: the step's explicit string value whenever it is non-empty and
\* neither duration-like nor URL-like; otherwise a quoted substring of the
\* step description; otherwise the phrase that follows a search pattern in the
\* task description; otherwise the fallback term "product".  Letter case is
\* not compared.
C34_SearchTermPriority ==
  SearchCalled =>
    LET v    == call.args.step.Value
        d    == ToLower(call.args.step.Description)
        t    == ToLower(call.args.ctx.TaskDescription)
        term == ToLower(call.ret)
    IN  /\ term # << >>
        /\ IF ExplicitTerm(v) THEN term = ToLower(v.s)
           ELSE IF QuotedSubstrings(d) # {} THEN term \in QuotedSubstrings(d)
           ELSE IF PhraseStarts(t) # {}
             THEN \E i \in PhraseStarts(t) : OccursAt(t, term, i)
           ELSE term = ProductTerm

\* The number a decimal literal stands for, read digit by digit; -1 for a
\* text that is not a run of digits.
DigitValue(c) ==
  CASE c = "0" -> 0 [] c = "1" -> 1 [] c = "2" -> 2 [] c = "3" -> 3
    [] c = "4" -> 4 [] c = "5" -> 5 [] c = "6" -> 6 [] c = "7" -> 7
    [] c = "8" -> 8 [] c = "9" -> 9 [] OTHER -> -1

RECURSIVE NaturalOf(_)
NaturalOf(t) ==
  IF t = << >> THEN -1
  ELSE IF DigitValue(t[Len(t)]) = -1 THEN -1
  ELSE IF Len(t) = 1 THEN DigitValue(t[1])
  ELSE IF NaturalOf(SubSeq(t, 1, Len(t) - 1)) = -1 THEN -1
  ELSE 10 * NaturalOf(SubSeq(t, 1, Len(t) - 1)) + DigitValue(t[Len(t)])

\* The text t is the decimal literal of the whole number n.
IsLiteralOf(t, n) ==
  IF n < 0 THEN t # << >> /\ Head(t) = "-" /\ NaturalOf(Tail(t)) = -n
  ELSE NaturalOf(t) = n

C35_ShortWitness ==
  /\ call.fn = "GetValueString"
  /\ call.args.step.Value = Float64Value(29999, 0)
  /\ call.ret = << "2", "9", "9", "9", "9", "m", "s" >>

\* The goroutines whose Controller operation is running against the browser.
InBrowser == { g \in Goroutines : handlers[g].pc \in {"run", "unlock"} }

\* C36: the Controller serialises the access to the one browser session:
\* under any interleaving of the server's handlers at most one Controller
\* operation is running against the browser at any time, and the goroutine
\* running it holds the mutex.
C36_OneOperationAtATime ==
  /\ Cardinality(InBrowser) <= 1
  /\ \A g \in InBrowser : controller.mu = g

\* C36 witness: one handler's Click is running while another handler's
\* screenshot and the Close of main wait for the mutex.
C36_Witness ==
  \E g, h, k \in Goroutines :
    /\ handlers[g] = [pc |-> "run", todo |-> << "Click" >>]
    /\ handlers[h] = [pc |-> "lock", todo |-> << "GetScreenshot" >>]
    /\ handlers[k] = [pc |-> "lock", todo |-> << "Close" >>]
    /\ controller.mu = g

\* ExecuteTask has returned the success of an exhausted plan.
PlanExhaustedSuccess ==
  /\ pc = "done"
  /\ result.Success
  /\ result.FinalState = "All planned steps completed"

\* C37: the success of an exhausted plan is returned only after the last step
\* of a non-empty current plan has been executed, never straight after the
\* failing step that reached the failure threshold with no step of the
\* recovery plan executed.
C37_ExhaustedOnlyAfterLastStep ==
  PlanExhaustedSuccess =>
    /\ plan.Steps # << >>
    /\ CurrentStepNum = Len(plan.Steps)
    /\ ExecutedSteps # << >>
    /\ Last(ExecutedSteps).Step = plan.Steps[Len(plan.Steps)]

\* C38: when ExecuteTask returns Success = true because the plan was
\* exhausted, at least one record of ExecutedSteps has Success = true: a run
\* in which every executed step failed is not reported as a success.
C38_SuccessHasSuccessfulStep ==
  PlanExhaustedSuccess => \E i \in 1..Len(ExecutedSteps) : ExecutedSteps[i].Success

\* C39: no attempt to execute a step, the retry of a critical step included,
\* begins at a moment when the time elapsed since the start of the task
\* already exceeds TotalTimeout.
C39_NoAttemptPastTimeout ==
  pc \in {"exec", "retry"} => now - startTime <= TotalTimeout

\* C40: consecutiveFailures is 0 whenever a validation is invoked and whenever
\* the first step of a replacement plan, from a replan or from a recovery,
\* starts executing: a new plan inherits no failure counted against the old.
C40_NoInheritedFailures ==
  /\ pc = "validate" => consecutiveFailures = 0
  /\ (pc = "exec" /\ CurrentStepNum = 0 /\ plansMade > 1)
        => consecutiveFailures = 0

\* C40 witness: the first step of a recovery plan starts executing, the three
\* failures that led to it in the log, the counter at 0.
C40_Witness ==
  /\ pc = "exec"
  /\ CurrentStepNum = 0
  /\ plansMade = 2
  /\ recoveryRequests = 1
  /\ Len(ExecutedSteps) >= maxConsecutiveFailures
  /\ ~Last(ExecutedSteps).Success
  /\ consecutiveFailures = 0

\* C40 witness of the validation: a validation is invoked after a critical
\* step that failed and succeeded on its retry.
C40_ValidationWitness ==
  /\ pc = "validate"
  /\ ~Last(ExecutedSteps).Success
  /\ consecutiveFailures = 0

====
